---- MODULE Spec2Model ----
(***************************************************************************)
(* The SearchBar component of web/src/components/search/SearchBar.tsx: a   *)
(* controlled <textarea> whose text is owned by the parent (prop query),   *)
(* whose onChange handler (handleChange) forwards the full content to      *)
(* setQuery and resizes the element, and whose onKeyDown handler           *)
(* (handleKeyDown) calls onSearch on Enter without Shift.                  *)
(*                                                                         *)
(* Text is a sequence of one-character strings.  Every event dispatch is   *)
(* one action; log holds, in program order, the event and the effects of   *)
(* the handler that ran for it (and the re-render that followed).          *)
(***************************************************************************)
EXTENDS Integers, Sequences, FiniteSets

\* ------------------------------------------------------------------ bounds
\* Longest text the user produces in the model.
MaxLen == 3
\* Most Enter-without-Shift key presses in one behaviour.
MaxSubmits == 2
\* Characters that fit on one visual line before the text wraps.
Cols == 2

\* --------------------------------------------------------------- constants
\* target.style.height = "24px"
Baseline == 24
\* Height of one rendered line of the textarea (class h-6: 1.5rem).
LineHeight == 24

Newline == "\n"
\* Characters of the texts that are pasted, set by the parent or there at the
\* start; typed text also holds the characters of the keys.
Chars == {"a", Newline}
\* Keys that insert their own character.
Printable == {"a", " ", "c", "t", "s", "d", "o", "g", "x"}

Strings(n) == UNION {[1..k -> Chars] : k \in 0..n}

\* Key-down events (key, shiftKey) the user produces.
KeyEvents ==
  { <<"a", FALSE>>, <<" ", FALSE>>, <<" ", TRUE>>,
    <<"Enter", FALSE>>, <<"Enter", TRUE>>,
    <<"Backspace", FALSE>>, <<"Backspace", TRUE>>,
    <<"Shift", TRUE>>, <<"Escape", FALSE>> }

VARIABLES
  query,     \* the parent's text, passed down as the prop query
  value,     \* the textarea's displayed content (DOM value)
  height,    \* the textarea's height in px
  updates,   \* state updates queued by setQuery, not yet rendered
  pc,        \* "idle" | "default" (key default action pending) | "render"
  pending,   \* the key whose default action is pending, or "" when none
  log,       \* the last event and the effects of its handling, in order
  nSubmit,   \* history: invocations of onSearch
  nEnter     \* history: key-down events with key Enter and no Shift

vars == <<query, value, height, updates, pc, pending, log, nSubmit, nEnter>>

\* One entry of log.
E(op, text, n) == [op |-> op, text |-> text, n |-> n]

Max(a, b) == IF a >= b THEN a ELSE b

\* ------------------------------------------------------------ measurement
\* Visual lines of text s, the current line holding col characters.
RECURSIVE visualLines(_, _)
visualLines(s, col) ==
  IF s = <<>> THEN 1
  ELSE IF Head(s) = Newline THEN 1 + visualLines(Tail(s), 0)
  ELSE IF col = Cols THEN 1 + visualLines(Tail(s), 1)
  ELSE visualLines(Tail(s), col + 1)

\* Natural height of the content.
contentHeight(s) == LineHeight * visualLines(s, 0)

\* target.scrollHeight: the content's height, never less than the box.
scrollHeight(s, styleHeight) == Max(contentHeight(s), styleHeight)

\* ------------------------------------------------------------ handleChange
\* A resize that measures without first resetting to the baseline.
ResizeEffectsNoReset(s, h) ==
  LET newHeight == scrollHeight(s, h)
  IN << E("readScrollHeight", <<>>, newHeight),
        E("setHeight", <<>>, newHeight) >>

\* Lines 19-22: reset to the baseline, read scrollHeight, set the height.
ResizeEffects(s, h) ==
  LET newHeight == scrollHeight(s, Baseline)
  IN << E("setHeight", <<>>, Baseline),
        E("readScrollHeight", <<>>, newHeight),
        E("setHeight", <<>>, newHeight) >>

\* A handler that strips leading and trailing blanks before notifying.
RECURSIVE TrimLeft(_)
TrimLeft(s) ==
  IF s # <<>> /\ Head(s) \in {" ", Newline} THEN TrimLeft(Tail(s)) ELSE s

RECURSIVE TrimRight(_)
TrimRight(s) ==
  IF s # <<>> /\ s[Len(s)] \in {" ", Newline}
  THEN TrimRight(SubSeq(s, 1, Len(s) - 1)) ELSE s

NotifyEffectsTrimmed(s) == << E("setQuery", TrimRight(TrimLeft(s)), 0) >>

\* Line 17: setQuery(target.value).
NotifyEffects(s) == << E("setQuery", s, 0) >>

\* A handler that measures and resizes before it notifies the parent.
handleChangeResizeFirst(s, h) == ResizeEffects(s, h) \o NotifyEffects(s)

\* Lines 15-23: the effects of handleChange on a target holding s, in order.
handleChange(s, h) == NotifyEffects(s) \o ResizeEffects(s, h)

\* ----------------------------------------------------------- handleKeyDown
\* A handler that does not look at the Shift modifier.
handleKeyDownNoShiftTest(key, shift) ==
  IF key = "Enter"
  THEN << E("onSearch", <<>>, 0), E("preventDefault", <<>>, 0) >>
  ELSE <<>>

\* A handler that submits and leaves the default action alone.
handleKeyDownNoPrevent(key, shift) ==
  IF key = "Enter" /\ ~shift
  THEN << E("onSearch", <<>>, 0) >>
  ELSE <<>>

\* A handler with || in place of &&.
handleKeyDownOr(key, shift) ==
  IF key = "Enter" \/ ~shift
  THEN << E("onSearch", <<>>, 0), E("preventDefault", <<>>, 0) >>
  ELSE <<>>

\* Lines 25-30: the effects of handleKeyDown, in order.
handleKeyDown(key, shift) ==
  IF key = "Enter" /\ ~shift
  THEN << E("onSearch", <<>>, 0), E("preventDefault", <<>>, 0) >>
  ELSE <<>>

\* ----------------------------------------------------------------- helpers
Count(effects, op) == Cardinality({i \in 1..Len(effects) : effects[i].op = op})

\* The height the element has after the effects ran, h before them.
RECURSIVE HeightAfter(_, _)
HeightAfter(effects, h) ==
  IF effects = <<>> THEN h
  ELSE HeightAfter(Tail(effects),
                   IF Head(effects).op = "setHeight" THEN Head(effects).n ELSE h)

\* The arguments of the setQuery calls among the effects, in order.
RECURSIVE QueuedBy(_)
QueuedBy(effects) ==
  IF effects = <<>> THEN <<>>
  ELSE IF Head(effects).op = "setQuery"
       THEN <<Head(effects).text>> \o QueuedBy(Tail(effects))
       ELSE QueuedBy(Tail(effects))

\* Keys whose default action edits the text of a textarea.
EditsText(key) == key \in Printable \cup {"Enter", "Backspace"}

InsertAt(s, pos, ch) == SubSeq(s, 1, pos) \o <<ch>> \o SubSeq(s, pos + 1, Len(s))
DeleteAt(s, pos) == SubSeq(s, 1, pos - 1) \o SubSeq(s, pos + 1, Len(s))

Shift(b) == IF b THEN 1 ELSE 0

\* ----------------------------------------------------------------- actions
Init ==
  /\ query \in Strings(MaxLen)
  /\ value = query
  /\ height = LineHeight
  /\ updates = <<>>
  /\ pc = "idle"
  /\ pending = ""
  /\ log = <<>>
  /\ nSubmit = 0
  /\ nEnter = 0

\* The change event on a target holding s: onChange={handleChange}.  The
\* event's log entry keeps the height the target had when it was dispatched.
Change(s) ==
  LET effects == handleChange(s, height)
  IN /\ value' = s
     /\ log' = <<E("change", s, height)>> \o effects
     /\ updates' = updates \o QueuedBy(effects)
     /\ height' = HeightAfter(effects, height)
     /\ pc' = "render"
     /\ pending' = ""
     /\ UNCHANGED <<query, nSubmit, nEnter>>

\* A key-down event: onKeyDown={handleKeyDown}.
KeyDown(key, shift) ==
  /\ pc = "idle"
  /\ LET effects == handleKeyDown(key, shift)
         prevented == Count(effects, "preventDefault") > 0
     IN /\ log' = <<E("keydown", <<key>>, Shift(shift))>> \o effects
        /\ nSubmit' = nSubmit + Count(effects, "onSearch")
        /\ nEnter' = nEnter + (IF key = "Enter" /\ ~shift THEN 1 ELSE 0)
        /\ updates' = updates \o QueuedBy(effects)
        /\ height' = HeightAfter(effects, height)
        /\ IF ~prevented /\ EditsText(key)
           THEN pc' = "default" /\ pending' = key
           ELSE pc' = "idle" /\ pending' = ""
  /\ UNCHANGED <<query, value>>

\* The default action of the pending key with the caret at pos: the browser
\* edits the content and dispatches the change event.
DefaultAction(pos) ==
  /\ pc = "default"
  /\ pos \in 0..Len(value)
  /\ IF pending = "Backspace"
     THEN IF pos = 0
          THEN /\ pc' = "idle"
               /\ pending' = ""
               /\ UNCHANGED <<query, value, height, updates, log, nSubmit, nEnter>>
          ELSE Change(DeleteAt(value, pos))
     ELSE Change(InsertAt(value, pos, IF pending = "Enter" THEN Newline ELSE pending))

\* Any other mutation of the content by the user (paste, cut, drop).
Input(s) ==
  /\ pc = "idle"
  /\ Change(s)

\* The parent owns the text and applies the updates it was handed like a
\* state setter: the last one wins.
ParentApply(queued) == queued[Len(queued)]

\* A re-render that leaves the textarea uncontrolled.
RenderUncontrolled ==
  /\ pc = "render"
  /\ query' = ParentApply(updates)
  /\ updates' = <<>>
  /\ pc' = "idle"
  /\ log' = Append(log, E("render", query', 0))
  /\ UNCHANGED <<value, height, pending, nSubmit, nEnter>>

\* A re-render that also fits the height to the new text.
RenderResizing ==
  /\ pc = "render"
  /\ query' = ParentApply(updates)
  /\ value' = query'
  /\ height' = scrollHeight(query', Baseline)
  /\ updates' = <<>>
  /\ pc' = "idle"
  /\ log' = Append(log, E("render", query', 0))
  /\ UNCHANGED <<pending, nSubmit, nEnter>>

\* The parent applies the queued update and renders SearchBar again with the
\* new prop: value={query}.  Nothing in the component touches the height.
Render ==
  /\ pc = "render"
  /\ query' = ParentApply(updates)
  /\ value' = query'
  /\ updates' = <<>>
  /\ pc' = "idle"
  /\ log' = Append(log, E("render", query', 0))
  /\ UNCHANGED <<height, pending, nSubmit, nEnter>>

\* The parent changes query by itself (for instance clears it after a
\* search), not through the component's callback.
ParentSetQuery(q) ==
  /\ pc = "idle"
  /\ updates' = Append(updates, q)
  /\ pc' = "render"
  /\ log' = <<E("external", q, 0)>>
  /\ UNCHANGED <<query, value, height, pending, nSubmit, nEnter>>

\* The bounds of the model on what the user does.
WithinBounds(key, shift) ==
  /\ (key = "Enter" /\ ~shift) => nEnter < MaxSubmits
  /\ (key \in Printable \/ (key = "Enter" /\ shift)) => Len(value) < MaxLen

Next ==
  \/ \E ev \in KeyEvents : WithinBounds(ev[1], ev[2]) /\ KeyDown(ev[1], ev[2])
  \/ \E pos \in 0..MaxLen + 1 : DefaultAction(pos)
  \/ \E s \in Strings(MaxLen) : Input(s)
  \/ Render
  \/ \E q \in Strings(MaxLen) : ParentSetQuery(q)

Spec == Init /\ [][Next]_vars

\* ------------------------------------------------------- the end-to-end run
\* The text of the scenario: "cats", a newline, "dogs".
Cats == <<"c", "a", "t", "s">>
CatsNl == Cats \o <<Newline>>
CatsNlDogs == CatsNl \o <<"d", "o", "g", "s">>

\* Most mistyped characters the user has to take back at one time.
MaxTypos == 1

IsPrefix(s, t) == Len(s) <= Len(t) /\ s = SubSeq(t, 1, Len(s))

\* The user types the scenario with the caret at the end: the next character
\* of the text (the newline with Shift+Enter), a modifier or Escape alone, a
\* mistyped "x" that Backspace takes back, and Enter once the text is there.
E2EKey ==
  /\ nEnter = 0
  /\ \/ /\ IsPrefix(value, CatsNlDogs) /\ value # CatsNlDogs
        /\ LET c == CatsNlDogs[Len(value) + 1]
           IN IF c = Newline THEN KeyDown("Enter", TRUE) ELSE KeyDown(c, FALSE)
     \/ /\ \E k \in 0..MaxTypos - 1 :
             /\ Len(value) >= k
             /\ IsPrefix(SubSeq(value, 1, Len(value) - k), CatsNlDogs)
             /\ \A i \in 1..k : value[Len(value) - k + i] = "x"
        /\ KeyDown("x", FALSE)
     \/ /\ ~IsPrefix(value, CatsNlDogs)
        /\ KeyDown("Backspace", FALSE)
     \/ KeyDown("Shift", TRUE)
     \/ KeyDown("Escape", FALSE)
     \/ /\ value = CatsNlDogs
        /\ KeyDown("Enter", FALSE)

E2EDefault == DefaultAction(Len(value))

InitE2E == Init /\ query = <<>>

NextE2E == E2EKey \/ E2EDefault \/ Render

SpecE2E == InitE2E /\ [][NextE2E]_vars

\* ------------------------------------------------------------------ claims
\* The steps of a behaviour, told apart by what they do to pc and log.
LastIs(op) == log # <<>> /\ log[1].op = op
ChangeStep == pc \in {"idle", "default"} /\ pc' = "render" /\ log'[1].op = "change"
ExternalStep == pc = "idle" /\ pc' = "render" /\ log'[1].op = "external"
RenderStep == pc = "render" /\ pc' = "idle"
KeyDownStep == pc = "idle" /\ pc' # "render"
EnterStep(shiftN) == KeyDownStep /\ log'[1] = E("keydown", <<"Enter">>, shiftN)

\* The height that fits text s: its natural height, at least the baseline.
Fit(s) == Max(contentHeight(s), Baseline)

\* C1: one change event on content s calls setQuery exactly once, inside the
\* handler, with s itself: the whole content, blanks and newlines included.
C1_ChangeNotifiesOnce ==
  LastIs("change") =>
    /\ QueuedBy(Tail(log)) = <<log[1].text>>
    /\ Count(log, "setQuery") = 1
    /\ pc = "render" => updates = <<log[1].text>> /\ value = log[1].text

C1_Witness ==
  /\ LastIs("change") /\ pc = "render"
  /\ log[1].text = <<Newline, "a", " ">>
  /\ updates = << <<Newline, "a", " ">> >>

\* C2: a key-down of Enter without Shift calls onSearch exactly once and
\* prevents the default action: no newline is inserted, no change event
\* follows, the content is as before.
C2_EnterSubmits ==
  [][EnterStep(0) =>
       /\ nSubmit' = nSubmit + 1
       /\ Count(log', "onSearch") = 1
       /\ Count(log', "preventDefault") = 1
       /\ pc' = "idle" /\ pending' = ""
       /\ value' = value /\ query' = query /\ updates' = updates]_vars

C2_Witness ==
  /\ log = << E("keydown", <<"Enter">>, 0), E("onSearch", <<>>, 0),
              E("preventDefault", <<>>, 0) >>
  /\ nSubmit = 1 /\ pc = "idle" /\ value = <<"a">>

\* C3: a key-down of Enter with Shift calls neither onSearch nor
\* preventDefault; the default action then inserts a newline, the change
\* event passes the new content to setQuery, and the re-render hands it back.
C3_ShiftEnterInsertsNewline ==
  /\ [][EnterStep(1) =>
          /\ nSubmit' = nSubmit
          /\ Len(log') = 1
          /\ pc' = "default" /\ pending' = "Enter"]_vars
  /\ [][(pc = "default" /\ pending = "Enter") =>
          /\ \E pos \in 0..Len(value) : value' = InsertAt(value, pos, Newline)
          /\ log'[1].op = "change" /\ log'[1].text = value'
          /\ updates' = <<value'>>
          /\ nSubmit' = nSubmit]_vars
  /\ [][(RenderStep /\ LastIs("change")) => query' = log[1].text]_vars

C3_Witness ==
  /\ pc = "default" /\ pending = "Enter"
  /\ log = << E("keydown", <<"Enter">>, 1) >>
  /\ nSubmit = 0 /\ value = <<"a">>

\* C4: a key-down of any key but Enter, with or without Shift, calls no
\* callback and leaves the height alone; the height changes only in the
\* handling of a change event.
C4_OtherKeysDoNothing ==
  /\ [][(KeyDownStep /\ log'[1].text # <<"Enter">>) =>
          /\ log'[1].op = "keydown"
          /\ Len(log') = 1
          /\ nSubmit' = nSubmit
          /\ height' = height
          /\ updates' = updates]_vars
  /\ [][height' # height => ChangeStep]_vars

C4_Witness ==
  /\ log = << E("keydown", <<" ">>, 1) >>
  /\ pc = "default" /\ height > Baseline /\ nSubmit = 0

\* C5: after a change event on content s the height is the height that fits
\* s, whatever the height and the content were before: the same for the same
\* s, and back to one line when the content shrinks to one line.
C5_HeightFitsContent ==
  LastIs("change") => height = Fit(log[1].text)

C5_Witness ==
  /\ LastIs("change") /\ log[1].text = <<"a">>
  /\ log[1].n > Baseline /\ height = Baseline

\* C7: whenever the parent has re-rendered, the displayed text is the query;
\* the handlers never assign either: the query changes only in a re-render,
\* to the text last passed to setQuery or set by the parent, and a handler's
\* only effects are callbacks and the height.
C7_TextMirrorsQuery ==
  /\ [](pc = "idle" => value = query /\ updates = <<>>)
  /\ [][query' # query => RenderStep /\ query' = updates[Len(updates)]]_vars
  /\ [](\A i \in 2..Len(log) :
          log[i].op \in {"setQuery", "setHeight", "readScrollHeight",
                         "onSearch", "preventDefault", "render"})

C7_Witness ==
  /\ pc = "idle" /\ LastIs("external")
  /\ log[Len(log)].op = "render"
  /\ query = <<"a", Newline>> /\ value = query

\* C8 as stated: the height is computed before the parent is notified, and
\* after the re-render the widget measures and resizes again.
C8_Original ==
  (LastIs("change") /\ pc = "idle") =>
    \E h, n, r, m \in 1..Len(log) :
      /\ h < n /\ n < r /\ r < m
      /\ log[h].op = "setHeight"
      /\ log[n].op = "setQuery"
      /\ log[r].op = "render"
      /\ log[m].op = "readScrollHeight"

\* C8 amended: a change event on s first calls setQuery(s), then resets the
\* height to the baseline, reads scrollHeight and sets the height to it; the
\* re-render with s follows the handler, and nothing is measured after it.
C8_NotifyThenResizeThenRender ==
  LastIs("change") =>
    LET s == log[1].text
    IN /\ Len(log) = (IF pc = "idle" THEN 6 ELSE 5)
       /\ log[2] = E("setQuery", s, 0)
       /\ log[3] = E("setHeight", <<>>, Baseline)
       /\ log[4] = E("readScrollHeight", <<>>, Fit(s))
       /\ log[5] = E("setHeight", <<>>, Fit(s))
       /\ pc = "idle" => log[6] = E("render", s, 0) /\ height = Fit(s)

C8_Witness ==
  /\ LastIs("change") /\ pc = "idle" /\ Len(log) = 6
  /\ log[6] = E("render", <<"a", Newline, "a">>, 0)
  /\ height = 2 * LineHeight

\* C9: a query the parent sets by itself (or supplies at the start) is
\* rendered without any change of the height, which stays as it was until
\* the next change event and then fits the content again.
C9_ExternalQueryLeavesHeight ==
  /\ [][(ExternalStep \/ RenderStep) => height' = height]_vars
  /\ [][ChangeStep => height' = Fit(value')]_vars
  /\ [][(~ChangeStep) => height' = height]_vars

C9_Witness ==
  /\ pc = "idle" /\ LastIs("external") /\ log[Len(log)].op = "render"
  /\ value = <<"a", Newline, "a">> /\ height = Baseline /\ height # Fit(value)

\* C10: onSearch has been called as often as Enter was pressed without Shift,
\* each time inside the handling of that key-down, whatever the query is; a
\* key-down never calls setQuery.
C10_SubmitsMatchEnters ==
  /\ [](nSubmit = nEnter)
  /\ [](LastIs("keydown") =>
          /\ Count(log, "setQuery") = 0
          /\ Count(log, "onSearch")
               = (IF log[1] = E("keydown", <<"Enter">>, 0) THEN 1 ELSE 0))
  /\ [][nSubmit' # nSubmit => EnterStep(0) /\ nSubmit' = nSubmit + 1]_vars

C10_Witness ==
  /\ nSubmit = MaxSubmits /\ nEnter = MaxSubmits
  /\ query = <<>> /\ value = <<>> /\ pc = "idle"
  /\ log[1] = E("keydown", <<"Enter">>, 0)

\* C6: the end-to-end run.  Typing "cats" passes "cats" to setQuery;
\* Shift+Enter submits nothing and the content becomes "cats", newline, once
\* re-rendered; typing "dogs" makes it "cats", newline, "dogs"; Enter then
\* calls onSearch, the only call of the run, and the query stays as it is.
C6_EndToEnd ==
  /\ [](nSubmit = nEnter /\ nSubmit <= 1)
  /\ []((LastIs("change") /\ log[1].text = Cats) =>
          Count(log, "setQuery") = 1 /\ log[2] = E("setQuery", Cats, 0))
  /\ [][EnterStep(1) =>
          value = Cats /\ nSubmit' = 0 /\ pc' = "default" /\ Len(log') = 1]_vars
  /\ [][(pc = "default" /\ pending = "Enter") =>
          value' = CatsNl /\ updates' = <<CatsNl>>]_vars
  /\ [][(RenderStep /\ value = CatsNl) => query' = CatsNl /\ value' = CatsNl]_vars
  /\ [][(RenderStep /\ value = CatsNlDogs) => query' = CatsNlDogs]_vars
  /\ [](nEnter = 1 =>
          /\ nSubmit = 1 /\ pc = "idle"
          /\ query = CatsNlDogs /\ value = CatsNlDogs
          /\ log = << E("keydown", <<"Enter">>, 0), E("onSearch", <<>>, 0),
                      E("preventDefault", <<>>, 0) >>)

C6_Witness ==
  /\ nEnter = 1 /\ nSubmit = 1 /\ pc = "idle"
  /\ query = CatsNlDogs /\ value = CatsNlDogs

====
